---- MODULE Spec2Model ----
(***************************************************************************)
(* flashcardz: the card file, add(), delete() and the review session go(). *)
(*                                                                         *)
(* Text is a sequence of one-character strings, so that str.replace,       *)
(* str.split, str.lower and str.isnumeric are computed character by        *)
(* character.  The card file is the sequence of its csv rows; a row is the *)
(* sequence of its fields.  The three trailing columns hold text that the  *)
(* program only ever tests and converts as a whole:                        *)
(*   date   : day number d >= 1 is the text of that day in date_format,    *)
(*            0 is text that strptime rejects (the header's "date");       *)
(*   viewed,                                                               *)
(*   tally  : n >= 0 is the decimal text of n, for which str.isnumeric     *)
(*            holds and int() gives n; -1 is text for which isnumeric      *)
(*            fails (the header's "viewed" and "tally", or "-1" itself).   *)
(* Python list positions are 0-based, the sequences here 1-based: x[0] of  *)
(* the source is x[1] here, index k of the source is k + 1 here.           *)
(***************************************************************************)
EXTENDS Integers, Sequences, FiniteSets, TLC

VARIABLES
    _settings,   \* the settings dictionary: pathname, maxtally, tallypenalty, abort
    today,       \* date.today()
    disk,        \* rows of the card file at _settings["pathname"]
    fs,          \* what open() of the card file allows: "ok", "readonly"
                 \* (reading only) or "locked" (nothing)
    pc,          \* where the interpreter is: idle at the REPL prompt, or inside go()
    _cards,      \* go()'s working deck
    index_list,  \* go()'s traversal order
    number,      \* go(): how many cards have been presented
    abort,       \* go()'s local abort flag
    unwanted,    \* go(): indices marked for removal
    missed,      \* go(): cards answered incorrectly
    preDisk,     \* history: the file when go() was called
    loaded,      \* history: the deck as go() loaded it
    answers,     \* history: index -> intent of the advancing response it received
    toggled,     \* history: an abort token was entered in this session
    reads,       \* history: how many times this go() has called _open
    returned,    \* history: how the last command ended: "", "quit" or "end"
                 \* (go()), or "raised" when an exception reached the REPL
    reported,    \* history: the error messages the last command printed
    shown,       \* history: what the last cards() listed, with the day, and
                 \* whether cards() had run just before it
    percent_correct, \* go()'s summary: <<percent>> when it printed one
    browser,     \* the machine: "desktop" when webbrowser finds a browser to
                 \* drive, "none" when it finds none
    elsewhere    \* history: the cards a second process running the program
                 \* has added to and deleted from the file since go() loaded it

vars == <<_settings, today, disk, fs, pc, _cards, index_list, number, abort,
          unwanted, missed, preDisk, loaded, answers, toggled, reads, returned,
          reported, shown, percent_correct, browser, elsewhere>>

(* Bounds of the model. *)
MaxDay == 2
MaxViewed == 2

(* Inputs. *)
MaxTallyValues == {1, 2}
PenaltyValues == {0, 1, 2}
\* an argument that is not text (a number, say): "int" is no character
nontext == <<"int">>
AddWords == {<<>>, <<"c">>, <<"C", " ">>, <<"|">>, <<"w", "o", "r", "d">>, nontext}
AddDefinitions == {<<"a">>, <<"|">>, <<>>, nontext}
ReviewDefinitions == {<<"|">>}
DeleteNumbers == {-1, 0, 2}
Confirms == {<<>>, <<"n">>, <<"N", "O">>}
PauseTokens == {<<>>, <<"q">>, <<"E">>, <<"x">>}
Tokens == {<<>>, <<"y">>, <<"Y">>, <<"n">>, <<"N">>,
           <<"q">>, <<"E">>, <<"a">>, <<"i">>, <<"1">>, <<"-", "1">>, <<"0">>,
           <<"-">>, <<"x">>, <<"2">>, <<"²">>}

-----------------------------------------------------------------------------
(* Text primitives. *)

delimiter == "|"
substitute == ";"

digits == {"0", "1", "2", "3", "4", "5", "6", "7", "8", "9"}

\* str.lower() of one character
lower(ch) ==
    CASE ch = "A" -> "a" [] ch = "C" -> "c" [] ch = "E" -> "e"
      [] ch = "I" -> "i" [] ch = "N" -> "n" [] ch = "O" -> "o"
      [] ch = "Q" -> "q" [] ch = "Y" -> "y" [] OTHER -> ch

\* s.lower()
lowered(s) == [i \in DOMAIN s |-> lower(s[i])]

\* s.replace(delimiter, substitute)
replace(s) == [i \in DOMAIN s |-> IF s[i] = delimiter THEN substitute ELSE s[i]]

notspace(ch) == ch \notin {" "}

\* ''.join(s.split()).lower()
normalized(s) == lowered(SelectSeq(s, notspace))

\* characters that are numeric without being decimal digits (superscript two)
superscripts == {"²"}

\* s.isnumeric() for a token typed at a prompt
isnumeric(s) == s # <<>> /\ \A i \in DOMAIN s : s[i] \in digits \cup superscripts

\* int(s) succeeds for a token for which isnumeric holds
decimal(s) == \A i \in DOMAIN s : s[i] \in digits

digit(ch) ==
    CASE ch = "0" -> 0 [] ch = "1" -> 1 [] ch = "2" -> 2 [] ch = "3" -> 3
      [] ch = "4" -> 4 [] ch = "5" -> 5 [] ch = "6" -> 6 [] ch = "7" -> 7
      [] ch = "8" -> 8 [] OTHER -> 9

RECURSIVE int(_)
\* int(s) of a decimal token
int(s) ==
    IF s = <<>> THEN 0
    ELSE 10 * int(SubSeq(s, 1, Len(s) - 1)) + digit(s[Len(s)])

\* list.pop(i) / del list[i], i 1-based
RemoveAt(s, i) == SubSeq(s, 1, i - 1) \o SubSeq(s, i + 1, Len(s))

-----------------------------------------------------------------------------
(* The card store. *)

\* the header row _save writes: word, definition, date, viewed, tally
fields == << <<"w", "o", "r", "d">>, <<"definition">>, 0, -1, -1 >>

\* _save: header row, then one row per card
_save(cards) == <<fields>> \o cards

\* datetime.strptime(text, date_format) succeeds
legit_date(d) == d >= 1

\* str.isnumeric() of a viewed or tally field
numeric_field(v) == v >= 0

\* _open's per-row normalisation of a row of at least two fields
normalize_row(c, td) ==
    LET c1 == IF Len(c) < 5 THEN SubSeq(c, 1, 2) \o <<td, 0, 0>> ELSE c
    IN  [c1 EXCEPT ![3] = IF legit_date(@) THEN @ ELSE td,
                   ![4] = IF numeric_field(@) THEN @ ELSE 0,
                   ![5] = IF numeric_field(@) THEN @ ELSE 0]

RECURSIVE read_rows(_, _, _)
\* _open's loop over the csv rows.  outcome: "ok"; "exit" when a row has one
\* field (sys.exit(), which except Exception does not catch); "error" when
\* an exception ends the loop, which returns the cards read so far.
read_rows(rows, acc, td) ==
    IF rows = <<>> THEN [cards |-> acc, outcome |-> "ok"]
    ELSE LET c == Head(rows) IN
         IF Len(c) = 1 THEN [cards |-> acc, outcome |-> "exit"]
         ELSE IF Len(c) = 0 THEN [cards |-> acc, outcome |-> "error"]
         ELSE LET n == normalize_row(c, td) IN
              read_rows(Tail(rows),
                        IF n[1] = fields[1] THEN acc ELSE Append(acc, n), td)

\* _open.  Without a pathname _setpathname raises inside the try block,
\* before _cards = [] has run: the handler prints the message and the return
\* statement raises UnboundLocalError ("raise").  When open() fails _cards is
\* already the empty list, which the handler's return gives back ("error").
_open(file, td) ==
    IF _settings.pathname = "None"
    THEN [cards |-> <<>>, outcome |-> "raise"]
    ELSE IF fs = "locked"
    THEN [cards |-> <<>>, outcome |-> "error"]
    ELSE read_rows(file, <<>>, td)

\* what _open prints.  The messages a command prints are named after the
\* function that prints them ("_open", "_save", "cards", "add"), but for the
\* one-field message of _open ("format") and delete's "doesn't exist"
\* ("range").
open_report(r) ==
    CASE r.outcome = "exit" -> {"format"}
      [] r.outcome \in {"error", "raise"} -> {"_open"}
      [] OTHER -> {}

\* _save without the handler: the exception of a failed open() goes on to
\* the caller
save_outcome_uncaught(access) == IF access = "ok" THEN "ok" ELSE "raise"

\* _save's try block: "ok" when the file was written, "error" when open()
\* failed and the handler printed the message
save_outcome(access) == IF access = "ok" THEN "ok" ELSE "error"

\* how a command ends after its _save: as it would have, or with the
\* exception _save let through
after_save(access, normally) ==
    IF save_outcome(access) = "raise" THEN "raised" ELSE normally

\* the file after _save(cards): written anew, or left as it was when open()
\* failed
save_file(cards, file, access) ==
    IF save_outcome(access) = "ok" THEN _save(cards) ELSE file

\* what _save prints
save_report(access) == IF save_outcome(access) = "error" THEN {"_save"} ELSE {}

\* no second process has written to the file
unshared == [added |-> {}, deleted |-> {}]

-----------------------------------------------------------------------------
Init ==
    /\ _settings \in [pathname : {"deck"}, maxtally : MaxTallyValues,
                      tallypenalty : PenaltyValues, abort : BOOLEAN]
    /\ today = 1
    /\ disk = _save(<<>>)
    /\ fs = "ok"
    /\ pc = "idle"
    /\ _cards = <<>>
    /\ index_list = <<>>
    /\ number = 0
    /\ abort = FALSE
    /\ unwanted = <<>>
    /\ missed = <<>>
    /\ preDisk = <<>>
    /\ loaded = <<>>
    /\ answers = <<>>
    /\ toggled = FALSE
    /\ reads = 0
    /\ returned = ""
    /\ reported = {}
    /\ shown = <<>>
    /\ percent_correct = <<>>
    \* a machine with a browser: without one a link request always returns
    \* to the prompt, which changes nothing here (InitPass has both machines)
    /\ browser = "desktop"
    /\ elsewhere = unshared

\* the locals of a go() that has returned are gone when the next command runs
forget ==
    /\ _cards' = <<>>
    /\ index_list' = <<>>
    /\ number' = 0
    /\ abort' = FALSE
    /\ unwanted' = <<>>
    /\ missed' = <<>>
    /\ preDisk' = <<>>
    /\ loaded' = <<>>
    /\ answers' = <<>>
    /\ toggled' = FALSE
    /\ reads' = 0
    /\ percent_correct' = <<>>
    /\ elsewhere' = unshared

\* the calendar day advances while the program waits at the REPL prompt
tick ==
    /\ pc = "idle"
    /\ today < MaxDay
    /\ today' = today + 1
    /\ forget
    /\ UNCHANGED <<_settings, disk, fs, pc, returned, reported, shown, browser>>

-----------------------------------------------------------------------------
(* add() and delete(). *)

\* upsert with the words compared as typed, not normalized
upsert_exact(cards, word, definition, td) ==
    LET hits == {i \in DOMAIN cards : cards[i][1] = word}
    IN  IF hits = {}
        THEN Append(cards, <<word, definition, td, 0, 0>>)
        ELSE LET i == CHOOSE h \in hits : \A j \in hits : h <= j
                 x == cards[i]
             IN  Append(RemoveAt(cards, i), <<word, definition, x[3], x[4], x[5]>>)

\* add's loop over the deck: replace the first card whose normalized word
\* equals the new word's, keeping its date, viewed and tally, else append
upsert(cards, word, definition, td) ==
    LET hits == {i \in DOMAIN cards : normalized(cards[i][1]) = normalized(word)}
    IN  IF hits = {}
        THEN Append(cards, <<word, definition, td, 0, 0>>)
        ELSE LET i == CHOOSE h \in hits : \A j \in hits : h <= j
                 x == cards[i]
             IN  Append(RemoveAt(cards, i), <<word, definition, x[3], x[4], x[5]>>)

\* a command whose _open did not return: sys.exit() ends the program, an
\* exception ends the command with a traceback at the REPL prompt
stopped(r) ==
    /\ pc' = IF r.outcome = "exit" THEN "exited" ELSE "idle"
    /\ returned' = IF r.outcome = "exit" THEN "" ELSE "raised"
    /\ reported' = open_report(r)
    /\ UNCHANGED disk

\* type(x) == str
is_str(x) == x # nontext

\* valid with the word tested only
valid_word(word, definition) == word # <<>> /\ is_str(word)

\* word and definition and type(word) == str and type(definition) == str
valid(word, definition) ==
    word # <<>> /\ definition # <<>> /\ is_str(word) /\ is_str(definition)

add(word, definition) ==
    /\ pc = "idle"
    /\ IF valid(word, definition)
       THEN LET r == _open(disk, today) IN
            IF r.outcome \in {"exit", "raise"}
            THEN stopped(r)
            ELSE /\ disk' = save_file(upsert(r.cards, replace(word),
                                             replace(definition), today),
                                      disk, fs)
                 /\ pc' = pc
                 /\ returned' = after_save(fs, "")
                 /\ reported' = open_report(r) \cup save_report(fs)
       ELSE /\ returned' = ""
            /\ reported' = {"add"}
            /\ UNCHANGED <<disk, pc>>
    /\ forget
    /\ shown' = <<>>
    /\ UNCHANGED <<_settings, today, fs, browser>>

\* abs(int(float(number)))
absolute(n) == IF n < 0 THEN -n ELSE n

\* delete with _save after the range test instead of under it
delete_file_always(cards, n, confirm, file, access) ==
    IF n < Len(cards) /\ lowered(confirm) \notin {<<"n">>, <<"n", "o">>}
    THEN save_file(RemoveAt(cards, n + 1), file, access)
    ELSE save_file(cards, file, access)

\* the file after delete's range test, confirmation, pop and _save
delete_file(cards, n, confirm, file, access) ==
    IF n < Len(cards) /\ lowered(confirm) \notin {<<"n">>, <<"n", "o">>}
    THEN save_file(RemoveAt(cards, n + 1), file, access)
    ELSE file

\* what delete prints besides _open's and _save's messages
delete_report(cards, n, confirm, access) ==
    IF n < Len(cards)
    THEN IF lowered(confirm) \notin {<<"n">>, <<"n", "o">>}
         THEN save_report(access) ELSE {}
    ELSE {"range"}

delete(num, confirm) ==
    /\ pc = "idle"
    /\ LET r == _open(disk, today)
           n == absolute(num)
       IN  IF r.outcome \in {"exit", "raise"}
           THEN stopped(r)
           ELSE /\ pc' = pc
                /\ returned' = IF n < Len(r.cards)
                                  /\ lowered(confirm) \notin {<<"n">>, <<"n", "o">>}
                               THEN after_save(fs, "") ELSE ""
                /\ disk' = delete_file(r.cards, n, confirm, disk, fs)
                /\ reported' = open_report(r)
                                  \cup delete_report(r.cards, n, confirm, fs)
    /\ forget
    /\ shown' = <<>>
    /\ UNCHANGED <<_settings, today, fs, browser>>

\* reading with what was read written back to the file
after_read_repairing(rows, file) == _save(rows)

\* the file after open(fn, 'r') and the reader's pass over it
after_read(rows, file) == file

\* cards() with its default arguments: the deck is loaded and listed.  The
\* bare except around the body catches whatever _open lets through, the
\* SystemExit of sys.exit() included, and prints a message of its own.
\* (cards is the deck in the other definitions, hence the name.)
list_cards ==
    /\ pc = "idle"
    /\ LET r == _open(disk, today) IN
         /\ shown' = IF r.outcome \in {"exit", "raise"}
                      THEN <<>>
                      ELSE << [cards |-> r.cards, day |-> today,
                               outcome |-> r.outcome,
                               times |-> IF shown = <<>> THEN 1 ELSE 2] >>
         /\ disk' = after_read(r.cards, disk)
         /\ reported' = open_report(r) \cup
                          (IF r.outcome \in {"exit", "raise"} THEN {"cards"} ELSE {})
    /\ returned' = ""
    /\ forget
    /\ UNCHANGED <<_settings, today, fs, pc, browser>>

\* another program takes hold of the card file, or lets go of it
lock ==
    /\ fs' \in {"ok", "readonly", "locked"} \ {fs}
    /\ UNCHANGED <<_settings, today, disk, pc, _cards, index_list, number, abort,
                   unwanted, missed, preDisk, loaded, answers, toggled, reads,
                   returned, reported, shown, percent_correct, browser,
                   elsewhere>>

-----------------------------------------------------------------------------
(* go(): the review session, one action per stretch of code between two    *)
(* input() calls.                                                          *)

\* ans and (ans[0].lower() == 'q' or ans[0].lower() == 'e')
quits(ans) == ans # <<>> /\ lower(ans[1]) \in {"q", "e"}

\* the first position after q that holds no white space, Len(text) + 1 if none
unspaced(text, q) ==
    LET R == {r \in q + 1 .. Len(text) : text[r] # " "}
    IN  IF R = {} THEN Len(text) + 1 ELSE CHOOSE r \in R : \A x \in R : r <= x

\* where \s*\(.+?\) ends when it is matched right after position q, 0 if it
\* does not match there
url_end(text, q) ==
    LET r == unspaced(text, q)
        T == {t \in r + 2 .. Len(text) : text[t] = ")"}
    IN  IF r <= Len(text) /\ text[r] = "(" /\ T # {}
        THEN CHOOSE t \in T : \A x \in T : t <= x
        ELSE 0

\* where (\[.+?\])(\s*\(.+?\)) ends when it is matched at position p, 0 if it
\* does not match there
link_end(text, p) ==
    LET Q == {q \in p + 2 .. Len(text) : text[q] = "]" /\ url_end(text, q) # 0}
    IN  IF text[p] = "[" /\ Q # {}
        THEN url_end(text, CHOOSE q \in Q : \A x \in Q : q <= x)
        ELSE 0

RECURSIVE tuples(_, _)
\* len(re.findall(r'(\[.+?\])(\s*\(.+?\))', text)), scanning from position p
tuples(text, p) ==
    IF p > Len(text) THEN 0
    ELSE IF link_end(text, p) = 0 THEN tuples(text, p + 1)
    ELSE 1 + tuples(text, link_end(text, p) + 1)

\* _url_at returns a URL (TRUE) or, with an error message, None (FALSE)
_url_at(text, i) == 0 < i /\ i <= tuples(text, 1)

\* webbrowser.open(url) returns; with None for the URL it does so only when
\* there is no browser to hand the URL to, and otherwise raises TypeError
opens(found, machine) == found \/ machine = "none"

\* classify with the first letter compared as typed, not lower-cased
classify_case_sensitive(ans) ==
    IF ans # <<>> /\ isnumeric(ans) THEN "link"
    ELSE IF ans # <<>> /\ ans[1] = "-" /\ Tail(ans) # <<>> /\ isnumeric(Tail(ans))
         THEN "raw"
    ELSE IF ans # <<>> /\ ans[1] = "i" THEN "info"
    ELSE IF ans # <<>> /\ ans[1] \in {"q", "e"} THEN "quit"
    ELSE IF ans # <<>> /\ ans[1] = "a" THEN "abort"
    ELSE IF ans # <<>> /\ ans[1] = "n" THEN "incorrect"
    ELSE "correct"

\* the if/elif chain on the response token, in source order
classify(ans) ==
    IF ans # <<>> /\ isnumeric(ans) THEN "link"
    ELSE IF ans # <<>> /\ ans[1] = "-" /\ Tail(ans) # <<>> /\ isnumeric(Tail(ans))
         THEN "raw"
    ELSE IF ans # <<>> /\ lower(ans[1]) = "i" THEN "info"
    ELSE IF quits(ans) THEN "quit"
    ELSE IF ans # <<>> /\ lower(ans[1]) = "a" THEN "abort"
    ELSE IF ans # <<>> /\ lower(ans[1]) = "n" THEN "incorrect"
    ELSE "correct"

\* orders with the shuffle drawing each position at random, repeats allowed
orders_with_repeats(n, sh) ==
    IF sh THEN [1..n -> 1..n] ELSE {[i \in 1..n |-> i]}

\* index_list: range(0, len(_cards)), reordered by random keys when shuffling
orders(n, sh) ==
    IF sh
    THEN {f \in [1..n -> 1..n] : \A i, j \in 1..n : f[i] = f[j] => i = j}
    ELSE {[i \in 1..n |-> i]}

\* _cards[k][3] = int(_cards[k][3]) + 1
present(cards, k) == [cards EXCEPT ![k][4] = @ + 1]

\* miss_tally taking the penalty off the card's own tally
miss_tally_subtract(old, maxtally, tallypenalty) ==
    IF old - tallypenalty > 0 THEN old - tallypenalty ELSE 0

\* max(0, _settings['maxtally'] - _settings['tallypenalty'])
miss_tally(old, maxtally, tallypenalty) ==
    IF maxtally - tallypenalty > 0 THEN maxtally - tallypenalty ELSE 0

\* int(_cards[k][4]) + 1
hit_tally(old) == old + 1

\* miss_unwanted with a missed card marked when its tally is at maxtally
miss_unwanted_at_maxtally(marks, k, tally, maxtally) ==
    IF tally >= maxtally THEN Append(marks, k) ELSE marks

\* miss_unwanted with every missed card marked
miss_unwanted_always(marks, k, tally, maxtally) == Append(marks, k)

\* the incorrect branch appends to missed only: unwanted stays as it is
miss_unwanted(marks, k, tally, maxtally) == marks

\* go_quit with the working deck saved before the return
go_quit_saving ==
    /\ pc' = "idle"
    /\ returned' = "quit"
    /\ disk' = save_file(_cards, disk, fs)
    /\ _cards' = <<>>
    /\ index_list' = <<>>
    /\ number' = 0
    /\ abort' = FALSE
    /\ unwanted' = <<>>
    /\ missed' = <<>>
    /\ UNCHANGED <<preDisk, loaded, answers, toggled, reads, reported, shown,
                   percent_correct>>

\* a return from go() on a quit token: nothing is saved.  The locals are
\* gone; the history keeps what the session had recorded.
go_quit ==
    /\ pc' = "idle"
    /\ returned' = "quit"
    /\ _cards' = <<>>
    /\ index_list' = <<>>
    /\ number' = 0
    /\ abort' = FALSE
    /\ unwanted' = <<>>
    /\ missed' = <<>>
    /\ UNCHANGED <<disk, preDisk, loaded, answers, toggled, reads, reported, shown,
                   percent_correct>>

\* an exception leaves go(): nothing is saved, the traceback is at the REPL
go_raise ==
    /\ pc' = "idle"
    /\ returned' = "raised"
    /\ _cards' = <<>>
    /\ index_list' = <<>>
    /\ number' = 0
    /\ abort' = FALSE
    /\ unwanted' = <<>>
    /\ missed' = <<>>
    /\ UNCHANGED <<disk, preDisk, loaded, answers, toggled, reads, reported, shown,
                   percent_correct>>

\* the call up to the "Press any key to start." prompt
go_call ==
    /\ pc = "idle"
    /\ \A i \in DOMAIN disk : Len(disk[i]) >= 4 => disk[i][4] < MaxViewed
    /\ pc' = "start"
    /\ abort' = (_settings.abort = TRUE)
    /\ preDisk' = disk
    /\ _cards' = <<>>
    /\ index_list' = <<>>
    /\ number' = 0
    /\ unwanted' = <<>>
    /\ missed' = <<>>
    /\ loaded' = <<>>
    /\ answers' = <<>>
    /\ toggled' = FALSE
    /\ reads' = 0
    /\ returned' = ""
    /\ reported' = {}
    /\ shown' = <<>>
    /\ percent_correct' = <<>>
    /\ elsewhere' = unshared
    /\ UNCHANGED <<_settings, today, disk, fs, browser>>

\* from the start prompt's answer to the first card's pause (or to the end of
\* the loop when the deck is empty); shuffle is go()'s parameter, read here
go_start(ans1, shuffle) ==
    /\ pc = "start"
    /\ IF quits(ans1)
       THEN go_quit
       ELSE LET r == _open(disk, today) IN
            IF r.outcome \in {"exit", "raise"}
            THEN /\ stopped(r)
                 /\ reads' = reads + 1
                 /\ UNCHANGED <<_cards, index_list, number, abort, unwanted,
                                missed, preDisk, loaded, answers, toggled, shown,
                                percent_correct>>
            ELSE \E order \in orders(Len(r.cards), shuffle) :
                 /\ index_list' = order
                 /\ loaded' = r.cards
                 /\ abort' = FALSE
                 /\ unwanted' = <<>>
                 /\ missed' = <<>>
                 /\ answers' = <<>>
                 /\ reads' = reads + 1
                 /\ reported' = open_report(r)
                 /\ IF order = <<>>
                    THEN /\ _cards' = r.cards
                         /\ number' = 0
                         /\ pc' = "end"
                    ELSE /\ _cards' = present(r.cards, order[1])
                         /\ number' = 1
                         /\ pc' = "word"
                 /\ UNCHANGED <<disk, preDisk, toggled, returned, shown,
                                percent_correct>>
    /\ UNCHANGED <<_settings, today, fs, browser, elsewhere>>

\* the pause after the word is shown
go_pause(ans0) ==
    /\ pc = "word"
    /\ IF quits(ans0)
       THEN go_quit
       ELSE /\ pc' = "resp"
            /\ UNCHANGED <<disk, _cards, index_list, number, abort, unwanted,
                           missed, preDisk, loaded, answers, toggled, reads,
                           returned, reported, shown, percent_correct>>
    /\ UNCHANGED <<_settings, today, fs, browser, elsewhere>>

\* advance with the for loop staying on the card it has just judged
advance_repeating(cards) ==
    /\ _cards' = cards
    /\ number' = number
    /\ pc' = "word"

\* after an advancing response: the next card is presented, or the loop ends
advance(cards) ==
    IF number < Len(index_list)
    THEN /\ _cards' = present(cards, index_list[number + 1])
         /\ number' = number + 1
         /\ pc' = "word"
    ELSE /\ _cards' = cards
         /\ number' = number
         /\ pc' = "end"

\* the "Meaning known?" prompt's answer
go_respond(ans) ==
    /\ pc = "resp"
    /\ LET k == index_list[number]
           intent == classify(ans)
       IN  CASE intent = "link" ->
                  \* webbrowser.open(_url_at(_cards[k][1], int(ans)))
                  IF decimal(ans) /\ opens(_url_at(_cards[k][2], int(ans)), browser)
                  THEN UNCHANGED <<disk, pc, _cards, index_list, number, abort,
                                   unwanted, missed, preDisk, loaded, answers,
                                   toggled, reads, returned, reported, shown,
                                   percent_correct>>
                  ELSE go_raise
             [] intent \in {"raw", "info"} ->
                  UNCHANGED <<disk, pc, _cards, index_list, number, abort, unwanted,
                              missed, preDisk, loaded, answers, toggled, reads,
                              returned, reported, shown, percent_correct>>
             [] intent = "quit" -> go_quit
             [] intent = "abort" ->
                  /\ abort' = ~abort
                  /\ toggled' = TRUE
                  /\ UNCHANGED <<disk, pc, _cards, index_list, number, unwanted,
                                 missed, preDisk, loaded, answers, reads, returned,
                                 reported, shown, percent_correct>>
             [] intent = "incorrect" ->
                  LET c == [_cards EXCEPT ![k][5] =
                               miss_tally(@, _settings.maxtally,
                                          _settings.tallypenalty)]
                  IN  /\ missed' = Append(missed, c[k])
                      /\ unwanted' = miss_unwanted(unwanted, k, c[k][5],
                                                   _settings.maxtally)
                      /\ answers' = answers @@ (k :> intent)
                      /\ advance(c)
                      /\ UNCHANGED <<disk, index_list, abort, preDisk,
                                     loaded, toggled, reads, returned, reported,
                                     shown, percent_correct>>
             [] OTHER ->
                  LET c == [_cards EXCEPT ![k][5] = hit_tally(@)]
                  IN  /\ unwanted' = IF c[k][5] >= _settings.maxtally
                                     THEN Append(unwanted, k) ELSE unwanted
                      /\ answers' = answers @@ (k :> intent)
                      /\ advance(c)
                      /\ UNCHANGED <<disk, index_list, abort, missed, preDisk,
                                     loaded, toggled, reads, returned, reported,
                                     shown, percent_correct>>
    /\ UNCHANGED <<_settings, today, fs, browser, elsewhere>>

RECURSIVE delete_each(_, _)
\* for ele in unwanted[::-1]: del _cards[ele]
delete_each(cards, eles) ==
    IF eles = <<>> THEN cards
    ELSE delete_each(RemoveAt(cards, eles[Len(eles)]), SubSeq(eles, 1, Len(eles) - 1))

ascending(a, b) == a < b

descending(a, b) == a > b

\* remove_unwanted without the sort: the marks are taken in traversal order
remove_unsorted(cards, eles) == delete_each(cards, eles)

\* remove_unwanted with the marked cards deleted first to last
remove_ascending(cards, eles) == delete_each(cards, SortSeq(eles, descending))

\* unwanted = sorted(unwanted), then the marked cards are deleted, last first
remove_unwanted(cards, eles) == delete_each(cards, SortSeq(eles, ascending))

\* persist without the test of the flag
persist_always(ab, cards, file) == save_file(cards, file, fs)

\* persist that keeps its hands off a file that changed since go() was called
persist_if_unchanged(ab, cards, file) ==
    IF ~ab /\ file = preDisk THEN save_file(cards, file, fs) ELSE file

\* if not abort: _save(_cards)
persist(ab, cards, file) == IF ~ab THEN save_file(cards, file, fs) ELSE file

\* the percentage with the quotient rounded to the nearest integer
percent_rounded(remaining, miss) ==
    (200 * (remaining - miss) + remaining) \div (2 * remaining)

\* int(100 * (len(_cards) - len(missed)) / len(_cards)): the quotient is not
\* negative, so int() gives its integer part
percent(remaining, miss) == (100 * (remaining - miss)) \div remaining

\* after the loop: removal of the mastered cards, the summary, the save, the
\* return.  The loop's own locals are gone; the deck, the flag and the lists
\* the summary reported stay readable until the next command.
go_end ==
    /\ pc = "end"
    /\ _cards' = remove_unwanted(_cards, unwanted)
    /\ unwanted' = SortSeq(unwanted, ascending)
    /\ pc' = "idle"
    /\ index_list' = <<>>
    /\ number' = 0
    /\ IF missed # <<>> /\ _cards' = <<>>
       THEN \* ZeroDivisionError in the summary: go() ends before the save
            /\ returned' = "raised"
            /\ UNCHANGED <<disk, reported, percent_correct>>
       ELSE /\ percent_correct' =
                  IF missed # <<>>
                  THEN << percent(Len(_cards'), Len(missed)) >> ELSE <<>>
            /\ disk' = persist(abort, _cards', disk)
            /\ reported' = IF ~abort THEN save_report(fs) ELSE {}
            /\ returned' = IF ~abort THEN after_save(fs, "end") ELSE "end"
    /\ UNCHANGED <<_settings, today, fs, abort, missed, preDisk, loaded, answers,
                   toggled, reads, shown, browser, elsewhere>>

\* the commands of one day; a review reads neither the definitions nor the
\* dates, so one definition is enough here
Next ==
    \/ \E w \in AddWords, d \in ReviewDefinitions : add(w, d)
    \/ \E n \in DeleteNumbers, c \in Confirms : delete(n, c)
    \/ go_call
    \/ \E a \in PauseTokens, sh \in BOOLEAN : go_start(a, sh)
    \/ \E a \in PauseTokens : go_pause(a)
    \/ \E a \in Tokens : go_respond(a)
    \/ go_end

Spec == Init /\ [][Next]_vars

\* the card store as the days pass: add() and delete() over every word and
\* definition
NextStore ==
    \/ tick
    \/ \E w \in AddWords, d \in AddDefinitions : add(w, d)
    \/ \E n \in DeleteNumbers, c \in Confirms : delete(n, c)

SpecStore == Init /\ [][NextStore]_vars

\* Card files the program did not write itself: the pathname may name any
\* text file, and the card file is meant to be edited with a text editor or
\* a spreadsheet.
written1 == << <<"c">>, <<"a">>, 1, 0, 0 >>
written2 == << <<";">>, <<"a">>, 1, 1, 1 >>
\* no header row; a row of two fields; a row whose date does not parse and
\* whose viewed is not numeric
edited == << << <<"c">>, <<"a">> >>, << <<";">>, <<"a">>, 0, -1, 1 >> >>
Files ==
    { \* as _save writes it: empty, and with two cards
      _save(<<>>),
      _save(<<written1, written2>>),
      edited,
      \* a row of one field
      _save(<<written1>>) \o << << <<"x">> >> >>,
      \* a blank line, then a row of one field
      _save(<<written1>>) \o << <<>>, << <<"x">> >> >> }

PathNames == {"deck", "None"}
FileWords == {<<>>, <<"c">>, <<"w", "o", "r", "d">>}
FileTokens == {<<>>, <<"n">>, <<"q">>, <<"a">>, <<"1">>}

InitFiles ==
    /\ _settings \in [pathname : PathNames, maxtally : {2}, tallypenalty : {1},
                      abort : {FALSE}]
    /\ today = 1
    /\ disk \in Files
    /\ fs = "ok"
    /\ pc = "idle"
    /\ _cards = <<>>
    /\ index_list = <<>>
    /\ number = 0
    /\ abort = FALSE
    /\ unwanted = <<>>
    /\ missed = <<>>
    /\ preDisk = <<>>
    /\ loaded = <<>>
    /\ answers = <<>>
    /\ toggled = FALSE
    /\ reads = 0
    /\ returned = ""
    /\ reported = {}
    /\ shown = <<>>
    /\ percent_correct = <<>>
    /\ browser = "desktop"
    /\ elsewhere = unshared

\* every command, on any card file, as the days pass and while another
\* program may hold the file
NextFiles ==
    \/ tick
    \/ lock
    \/ list_cards
    \/ \E w \in FileWords, d \in ReviewDefinitions : add(w, d)
    \/ \E n \in DeleteNumbers, c \in Confirms : delete(n, c)
    \/ go_call
    \/ \E a \in PauseTokens : go_start(a, FALSE)
    \/ \E a \in PauseTokens : go_pause(a)
    \/ \E a \in FileTokens : go_respond(a)
    \/ go_end

SpecFiles == InitFiles /\ [][NextFiles]_vars

\* Reviews of a deck of three cards, as three add() calls leave it.
written3 == << <<"x">>, <<"[", "g", "]", "(", "u", ")">>, 1, 0, 0 >>

InitPass ==
    /\ _settings \in [pathname : {"deck"}, maxtally : MaxTallyValues,
                      tallypenalty : PenaltyValues, abort : BOOLEAN]
    /\ today = 1
    /\ disk = _save(<<written1, written2, written3>>)
    /\ fs = "ok"
    /\ pc = "idle"
    /\ _cards = <<>>
    /\ index_list = <<>>
    /\ number = 0
    /\ abort = FALSE
    /\ unwanted = <<>>
    /\ missed = <<>>
    /\ preDisk = <<>>
    /\ loaded = <<>>
    /\ answers = <<>>
    /\ toggled = FALSE
    /\ reads = 0
    /\ returned = ""
    /\ reported = {}
    /\ shown = <<>>
    /\ percent_correct = <<>>
    /\ browser \in {"none", "desktop"}
    /\ elsewhere = unshared

NextPass ==
    \/ go_call
    \/ \E a \in PauseTokens, sh \in BOOLEAN : go_start(a, sh)
    \/ \E a \in PauseTokens : go_pause(a)
    \/ \E a \in Tokens : go_respond(a)
    \/ go_end

SpecPass == InitPass /\ [][NextPass]_vars

\* A second process runs the program on the same card file while a review
\* session of the first is between its load and its save: nothing in _open
\* or _save locks the file or looks at what it held before.
elsewhere_add(word, definition) ==
    /\ pc \in {"word", "resp", "end"}
    /\ valid(word, definition)
    /\ LET r == _open(disk, today)
           new == upsert(r.cards, replace(word), replace(definition), today)
       IN  /\ r.outcome \notin {"exit", "raise"}
           /\ disk' = save_file(new, disk, fs)
           /\ elsewhere' = [elsewhere EXCEPT !.added = @ \cup {new[Len(new)]}]
    /\ UNCHANGED <<_settings, today, fs, pc, _cards, index_list, number, abort,
                   unwanted, missed, preDisk, loaded, answers, toggled, reads,
                   returned, reported, shown, percent_correct, browser>>

\* the second process's delete(num), confirmed
elsewhere_delete(num) ==
    /\ pc \in {"word", "resp", "end"}
    /\ LET r == _open(disk, today)
           n == absolute(num)
       IN  /\ r.outcome \notin {"exit", "raise"}
           /\ n < Len(r.cards)
           /\ disk' = delete_file(r.cards, n, <<>>, disk, fs)
           /\ elsewhere' = [elsewhere EXCEPT !.deleted = @ \cup {r.cards[n + 1]}]
    /\ UNCHANGED <<_settings, today, fs, pc, _cards, index_list, number, abort,
                   unwanted, missed, preDisk, loaded, answers, toggled, reads,
                   returned, reported, shown, percent_correct, browser>>

SharedWords == {<<"c">>, <<"z">>}

InitShared ==
    /\ _settings \in [pathname : {"deck"}, maxtally : MaxTallyValues,
                      tallypenalty : {1}, abort : {FALSE}]
    /\ today = 1
    /\ disk = _save(<<written1, written2>>)
    /\ fs = "ok"
    /\ pc = "idle"
    /\ _cards = <<>>
    /\ index_list = <<>>
    /\ number = 0
    /\ abort = FALSE
    /\ unwanted = <<>>
    /\ missed = <<>>
    /\ preDisk = <<>>
    /\ loaded = <<>>
    /\ answers = <<>>
    /\ toggled = FALSE
    /\ reads = 0
    /\ returned = ""
    /\ reported = {}
    /\ shown = <<>>
    /\ percent_correct = <<>>
    /\ browser = "desktop"
    /\ elsewhere = unshared

NextShared ==
    \/ go_call
    \/ \E a \in PauseTokens : go_start(a, FALSE)
    \/ \E a \in PauseTokens : go_pause(a)
    \/ \E a \in FileTokens : go_respond(a)
    \/ go_end
    \/ \E w \in SharedWords, d \in ReviewDefinitions : elsewhere_add(w, d)
    \/ \E n \in DeleteNumbers : elsewhere_delete(n)

SpecShared == InitShared /\ [][NextShared]_vars

-----------------------------------------------------------------------------
(* Properties. *)

\* the deck on disk: the rows under the header row
stored == Tail(disk)

\* a response token that starts with y/Y, or the empty input
yes(ans) == ans = <<>> \/ ans[1] \in {"y", "Y"}

\* a response token that starts with n/N
no(ans) == ans # <<>> /\ ans[1] \in {"n", "N"}

\* the loop moved on from the card it was at
advanced ==
    IF number < Len(index_list)
    THEN number' = number + 1 /\ pc' = "word"
    ELSE pc' = "end"

\* C1: a correct response (y/Y or empty input) sets the card's tally to its
\* previous tally plus one; and when that tally is at least maxtally and the
\* pass completes with the abort flag off, the card is not in the saved deck.
C1_CorrectAddsOneAndRetires ==
    [][ /\ \A ans \in {t \in Tokens : yes(t)} :
             go_respond(ans) =>
               /\ _cards'[index_list[number]][5] = _cards[index_list[number]][5] + 1
               /\ answers'[index_list[number]] = "correct"
        /\ (go_end /\ ~abort) =>
             \A k \in DOMAIN answers :
               (answers[k] = "correct" /\ _cards[k][5] >= _settings.maxtally)
                 => \A i \in DOMAIN stored' : stored'[i][1] # _cards[k][1]
      ]_vars

\* C1 witness: a pass of two cards completed and saved; one card was answered
\* correctly into mastery and is gone from the file, the other is still there
C1_Witness ==
    /\ returned = "end" /\ ~abort
    /\ Len(loaded) = 2 /\ Len(stored) = 1
    /\ \E k \in DOMAIN answers :
         /\ answers[k] = "correct"
         /\ loaded[k][5] + 1 >= _settings.maxtally
         /\ \A i \in DOMAIN stored : stored[i][1] # loaded[k][1]

C3_TallyInRange ==
    /\ \A i \in DOMAIN _cards :
         0 <= _cards[i][5] /\ _cards[i][5] <= _settings.maxtally
    /\ \A i \in DOMAIN stored :
         0 <= stored[i][5] /\ stored[i][5] <= _settings.maxtally

\* C4: after go() returned on a quit token, at whichever prompt, the file is
\* what it was when go() was called.
C4_QuitLeavesFile == returned = "quit" => disk = preDisk

\* C4 witness: go() returned on a quit after a card of a two-card deck had
\* been answered
C4_Witness ==
    /\ returned = "quit"
    /\ Len(loaded) = 2
    /\ Cardinality(DOMAIN answers) = 1
    /\ disk = preDisk

\* C5: when the abort flag is on as a pass completes, the file is what it was
\* when go() was called.
C5_AbortLeavesFile == (returned = "end" /\ abort) => disk = preDisk

\* C5 witness: a pass completed with the flag on; in memory a mastered card
\* was removed and a remaining card's counters changed; the file did not
C5_Witness ==
    /\ returned = "end" /\ abort
    /\ unwanted # <<>>
    /\ _cards # <<>> /\ Len(_cards) < Len(loaded)
    /\ \A i \in DOMAIN _cards : \A j \in DOMAIN stored : _cards[i] # stored[j]
    /\ disk = preDisk

\* C6: an add() whose word has the normalized form of a card already in the
\* file leaves exactly one card of that normalized form: the last one, with
\* the new word and definition and the old card's date.
C6_UpsertKeepsDate ==
    [][ \A w \in AddWords, d \in AddDefinitions :
          ( /\ add(w, d)
            /\ w # <<>>
            /\ \E i \in DOMAIN stored :
                 normalized(stored[i][1]) = normalized(replace(w)) ) =>
            LET same(cards) == {i \in DOMAIN cards :
                                  normalized(cards[i][1]) = normalized(replace(w))}
                old == stored[CHOOSE i \in same(stored) : TRUE]
                new == stored'
            IN  /\ same(new) = {Len(new)}
                /\ new[Len(new)][1] = replace(w)
                /\ new[Len(new)][2] = replace(d)
                /\ new[Len(new)][3] = old[3]
      ]_vars

\* C7: no two cards of the file have the same normalized word.
C7_NoDuplicateWords ==
    \A i, j \in DOMAIN stored :
      normalized(stored[i][1]) = normalized(stored[j][1]) => i = j

\* C7 witness: the file holds a card never viewed followed by a viewed card
\* spelled with a capital and a blank.  Cards are viewed together and new
\* cards go last, so the viewed card was put behind the other by an add()
\* that replaced the card of the same normalized word.
C7_Witness ==
    /\ Len(stored) = 2
    /\ stored[1][1] = <<";">> /\ stored[1][4] = 0
    /\ stored[2][1] = <<"C", " ">> /\ stored[2][4] >= 1

\* C8: after a pass that completed and saved, no card of the file has a
\* tally of maxtally or more.
C8_SavedBelowMaxtally ==
    (returned = "end" /\ ~abort) =>
      \A i \in DOMAIN stored : stored[i][5] < _settings.maxtally

\* C9: an incorrect response lowers the card's tally by tallypenalty, not
\* below zero: the new tally is max(0, old tally - tallypenalty).
C9_IncorrectSubtractsPenalty ==
    [][ \A ans \in {t \in Tokens : no(t)} :
          go_respond(ans) =>
            LET k == index_list[number]
                d == _cards[k][5] - _settings.tallypenalty
            IN  _cards'[k][5] = IF d > 0 THEN d ELSE 0
      ]_vars

\* C10: with the setting "abort" True and no abort token entered, a pass
\* that completes leaves the file as it was when go() was called.
C10_AbortSettingLeavesFile ==
    (returned = "end" /\ _settings.abort /\ ~toggled) => disk = preDisk

\* a file as _save writes it: the header row, then rows of five fields with
\* a date that parses and numeric viewed and tally
wellformed(file) ==
    /\ file # <<>>
    /\ file[1] = fields
    /\ \A i \in 2..Len(file) :
         /\ Len(file[i]) = 5
         /\ legit_date(file[i][3])
         /\ numeric_field(file[i][4])
         /\ numeric_field(file[i][5])

\* C11: for a well-formed file, saving what load returns writes the same
\* rows in the same order, and loading that again returns the same cards.
C11_RoundTrip ==
    wellformed(disk) =>
      LET r == _open(disk, today)
      IN  /\ r.outcome = "ok"
          /\ _save(r.cards) = disk
          /\ _open(_save(r.cards), today).cards = r.cards

C13_AddedCardReadBack ==
    [][ \A w \in AddWords, d \in AddDefinitions :
          (add(w, d) /\ w # <<>> /\ d # <<>>) =>
            LET back == _open(disk', today).cards
                clean(t) == \A i \in DOMAIN t : t[i] # delimiter
            IN  /\ \E i \in DOMAIN back :
                     /\ Len(back[i]) = 5
                     /\ back[i][1] = replace(w)
                     /\ back[i][2] = replace(d)
                /\ \A i \in DOMAIN back :
                     Len(back[i]) = 5 /\ clean(back[i][1]) /\ clean(back[i][2])
      ]_vars

\* C14 as claimed: a delete() whose number is not a position of the loaded
\* deck, that is not within 0 .. len - 1, prints "doesn't exist" and leaves
\* the file as it was.
C14_OutOfRangeNoMutation ==
    [][ \A n \in DeleteNumbers, c \in Confirms :
          LET r == _open(disk, today)
          IN  ( /\ delete(n, c)
                /\ r.outcome \in {"ok", "error"}
                /\ ~(0 <= n /\ n < Len(r.cards)) ) =>
                  (disk' = disk /\ "range" \in reported')
      ]_vars

\* C14 amended: a delete() whose number has an absolute value that is not a
\* position of the loaded deck prints "doesn't exist" and leaves the file as
\* it was.
C14_AbsOutOfRangeNoMutation ==
    [][ \A n \in DeleteNumbers, c \in Confirms :
          LET r == _open(disk, today)
              a == IF n < 0 THEN -n ELSE n
          IN  ( /\ delete(n, c)
                /\ r.outcome \in {"ok", "error"}
                /\ ~(a < Len(r.cards)) ) =>
                  (disk' = disk /\ "range" \in reported')
      ]_vars

\* C14 witness: delete() was refused on the hand-edited file of two rows,
\* which is still unrepaired
C14_Witness ==
    /\ "range" \in reported
    /\ fs = "ok" /\ _settings.pathname = "deck"
    /\ disk = edited

\* C15: a delete() whose number is a position of the deck leaves the file as
\* it was when the confirmation is n or no; otherwise the deck in the file
\* is the deck that was in the file without the card at that position, the
\* other cards in their order.
C15_DeleteRemovesExactlyOne ==
    [][ \A n \in DeleteNumbers, c \in Confirms :
          ( /\ delete(n, c)
            /\ 0 <= n /\ n < Len(_open(disk, today).cards) ) =>
              IF lowered(c) \in {<<"n">>, <<"n", "o">>}
              THEN disk' = disk
              ELSE Tail(disk') = RemoveAt(Tail(disk), n + 1)
      ]_vars

\* C16: when a pass that completed had missed cards, the percentage it
\* reported is the integer part of 100 * (remaining - missed) / remaining,
\* remaining being the size of the deck after the mastered cards were
\* removed.
C16_PercentTruncated ==
    (returned = "end" /\ missed # <<>>) =>
      \E q \in 0..100 :
        /\ percent_correct = <<q>>
        /\ q * Len(_cards) <= 100 * (Len(_cards) - Len(missed))
        /\ 100 * (Len(_cards) - Len(missed)) < (q + 1) * Len(_cards)

\* C16 witness: a pass over three cards ended with one missed and none
\* removed, and reported 66, not 67
C16_Witness ==
    /\ returned = "end"
    /\ Len(loaded) = 3 /\ Len(_cards) = 3 /\ Len(missed) = 1
    /\ percent_correct = <<66>>

\* the step is a command reaching its call of _open
loading ==
    \/ list_cards
    \/ \E w \in FileWords \ {<<>>}, d \in ReviewDefinitions : add(w, d)
    \/ \E n \in DeleteNumbers, c \in Confirms : delete(n, c)
    \/ \E a \in PauseTokens : ~quits(a) /\ go_start(a, FALSE)

\* C17: when load cannot open the file or fails while reading it, it prints
\* the error and returns the empty list, and no exception ends the command
\* that called it.
C17_LoadFailsEmpty ==
    [][ LET r == _open(disk, today)
        IN  (loading /\ r.outcome \in {"error", "raise"}) =>
              /\ "_open" \in reported'
              /\ returned' # "raised"
              /\ r.cards = <<>>
      ]_vars

\* a row of exactly one field
one_field(file) == \E i \in DOMAIN file : Len(file[i]) = 1

\* C18: when the file that load reads has a row of exactly one field, the
\* program halts, whichever command called load, and the file is left as it
\* was.
C18_OneFieldRowHalts ==
    [][ ( /\ one_field(disk) /\ fs # "locked" /\ _settings.pathname = "deck"
          /\ loading ) =>
          (pc' = "exited" /\ disk' = disk)
      ]_vars

\* C19: while a review session is under way the file is what it was when
\* go() was called; the session has read the file once, when it started,
\* and never reads it again; and the file is only written by the step that
\* ends the pass, after every card of the traversal order has received an
\* advancing response.
C19_ReadOnceWriteAtEnd ==
    [][ /\ pc \in {"start", "word", "resp", "end"} => disk = preDisk
        /\ pc \in {"word", "resp", "end"} => (reads = 1 /\ reads' = 1)
        /\ (pc # "idle" /\ disk' # disk) =>
             /\ pc = "end" /\ pc' = "idle"
             /\ DOMAIN answers = 1..Len(loaded)
             /\ Len(index_list) = Len(loaded)
      ]_vars

\* C19 witness: a pass over two cards has been saved after one read
C19_Witness ==
    /\ returned = "end" /\ pc = "idle"
    /\ reads = 1
    /\ Len(loaded) = 2 /\ DOMAIN answers = {1, 2}
    /\ disk # preDisk

\* the step is a command reaching its call of _save
saving ==
    \/ \E w \in FileWords \ {<<>>}, d \in ReviewDefinitions :
         add(w, d) /\ _open(disk, today).outcome \in {"ok", "error"}
    \/ \E n \in DeleteNumbers, c \in Confirms :
         /\ delete(n, c)
         /\ _open(disk, today).outcome \in {"ok", "error"}
         /\ (IF n < 0 THEN -n ELSE n) < Len(_open(disk, today).cards)
         /\ lowered(c) \notin {<<"n">>, <<"n", "o">>}
    \/ go_end /\ ~abort

\* C20: when the file cannot be written, a command that calls _save prints
\* _save's message and returns to the prompt as it does after a save that
\* worked: no exception reaches the caller.
C20_SaveFailureCaught ==
    [][ (saving /\ fs # "ok") =>
          /\ pc' = "idle"
          /\ returned' # "raised"
          /\ "_save" \in reported'
      ]_vars

\* C20 witness: a pass over a loaded deck completed with the flag off while
\* the file could not be written: go() printed _save's message and returned
C20_Witness ==
    /\ returned = "end" /\ pc = "idle" /\ ~abort
    /\ loaded # <<>>
    /\ "_save" \in reported
    /\ fs # "ok"

\* C21: when the loop of a pass has ended, the traversal order was a
\* permutation of the positions of the loaded deck, every card was presented
\* once, and every card's viewed count is one more than it was loaded with,
\* whatever re-prompting responses were given.
C21_EachCardViewedOnce ==
    pc = "end" =>
      /\ Len(index_list) = Len(loaded)
      /\ {index_list[i] : i \in DOMAIN index_list} = DOMAIN loaded
      /\ number = Len(loaded)
      /\ Len(_cards) = Len(loaded)
      /\ \A k \in DOMAIN loaded : _cards[k][4] = loaded[k][4] + 1

\* C21 witness: the loop ended over two cards taken in reverse order, with an
\* abort token entered on the way
C21_Witness ==
    /\ pc = "end"
    /\ Len(loaded) = 2 /\ index_list = <<2, 1>>
    /\ toggled
    /\ \A k \in DOMAIN loaded : _cards[k][4] = loaded[k][4] + 1

\* a response after which, by the documentation, the same card is prompted
\* again: a positive integer, '-' and digits, a token starting with i or a
reprompting(ans) ==
    /\ ans # <<>>
    /\ \/ (decimal(ans) /\ int(ans) > 0)
       \/ (ans[1] = "-" /\ Tail(ans) # <<>> /\ decimal(Tail(ans)))
       \/ lower(ans[1]) \in {"i", "a"}

\* C22: a re-prompting response (a link request, a request for the raw
\* definition, a help request, an abort toggle) leaves the current card's tally
\* and viewed count, the missed list, the removal list and the position in the
\* traversal unchanged, and the same card is prompted again.
C22_RepromptKeepsCard ==
    [][ \A ans \in {t \in Tokens : reprompting(t)} :
          go_respond(ans) =>
            /\ pc' = "resp"
            /\ number' = number /\ index_list' = index_list
            /\ _cards' = _cards
            /\ missed' = missed /\ unwanted' = unwanted ]_vars

\* the documented priority order of the intents, with the link request read
\* as "the token is a positive integer"
by_priority_positive(ans) ==
    IF ans # <<>> /\ decimal(ans) /\ int(ans) > 0 THEN "link"
    ELSE IF ans # <<>> /\ ans[1] = "-" /\ Tail(ans) # <<>> /\ decimal(Tail(ans))
         THEN "raw"
    ELSE IF ans # <<>> /\ ans[1] \in {"i", "I"} THEN "info"
    ELSE IF ans # <<>> /\ ans[1] \in {"q", "Q", "e", "E"} THEN "quit"
    ELSE IF ans # <<>> /\ ans[1] \in {"a", "A"} THEN "abort"
    ELSE IF ans # <<>> /\ ans[1] \in {"n", "N"} THEN "incorrect"
    ELSE "correct"

\* the same order, with the link request read as "the token consists of
\* numeric characters", zero included
by_priority_numeric(ans) ==
    IF ans # <<>> /\ (\A i \in DOMAIN ans : ans[i] \in digits \cup superscripts)
    THEN "link"
    ELSE by_priority_positive(ans)

\* what a response of the given intent does to the session
effect(intent) ==
    LET k == index_list[number] IN
    CASE intent = "correct" ->
           /\ Len(_cards') = Len(_cards) /\ _cards'[k][5] = _cards[k][5] + 1
           /\ missed' = missed
      [] intent = "incorrect" -> missed' # missed /\ unwanted' = unwanted
      [] intent = "quit" -> returned' = "quit" /\ pc' = "idle"
      [] intent = "abort" -> abort' = ~abort /\ pc' = "resp"
      [] OTHER -> /\ returned' # "quit" /\ answers' = answers
                  /\ pc' = "resp" => abort' = abort /\ _cards' = _cards

\* C23 as stated: every response token has the intent the priority order
\* gives it, a link request being a positive integer, so that "0" and "-"
\* count as correct answers.
C23_IntentByPriority ==
    [][ \A ans \in Tokens :
          go_respond(ans) =>
            /\ classify(ans) = by_priority_positive(ans)
            /\ effect(by_priority_positive(ans)) ]_vars

\* C23, amended: every response token has the intent the priority order
\* gives it, a link request being any token of numeric characters ("0"
\* included); "-" and every other unmatched token count as correct answers.
C23_IntentByPriorityNumeric ==
    [][ \A ans \in Tokens :
          go_respond(ans) =>
            /\ classify(ans) = by_priority_numeric(ans)
            /\ effect(by_priority_numeric(ans)) ]_vars

C23_Witness ==
    /\ pc = "resp" /\ number = 3
    /\ toggled /\ abort
    /\ \E i, j \in DOMAIN answers :
         answers[i] = "correct" /\ answers[j] = "incorrect"

\* the cards at the positions outside marked, in their order
unmarked(cards, marked) ==
    LET keep == DOMAIN cards \ marked
    IN  [j \in 1 .. Cardinality(keep) |->
           cards[CHOOSE i \in keep : Cardinality({x \in keep : x <= i}) = j]]

\* C24: whatever the traversal order and whichever cards were marked, the
\* removal at the end of the pass leaves exactly the unmarked cards, in their
\* original relative order.
C24_RemovalKeepsUnmarked ==
    [][ go_end =>
          _cards' = unmarked(_cards, {unwanted[i] : i \in DOMAIN unwanted}) ]_vars

C24_Witness ==
    /\ pc = "idle" /\ returned = "end"
    /\ Len(loaded) = 3
    /\ unwanted = <<1, 3>>
    /\ Len(_cards) = 1 /\ _cards[1][1] = loaded[2][1]

\* C25: the summary at the end of a pass never divides by zero: whenever a
\* card was missed, the deck left after the removal is not empty, the
\* percentage is printed and go() does not end with an exception.
C25_SummaryDivides ==
    [][ go_end =>
          /\ returned' # "raised"
          /\ missed # <<>> => (_cards' # <<>> /\ percent_correct' # <<>>) ]_vars

C25_Witness ==
    /\ pc = "idle" /\ returned = "end"
    /\ Len(loaded) = 3
    /\ Len(unwanted) = 2 /\ Len(missed) = 1 /\ Len(_cards) = 1
    /\ percent_correct = <<0>>

\* C26: add() with a word or a definition that is empty or is not text
\* prints the error message with its example and leaves the card file as it
\* was.
C26_MalformedAddNoOp ==
    [][ \A w \in AddWords, d \in AddDefinitions :
          ( /\ w \in {<<>>, nontext} \/ d \in {<<>>, nontext}
            /\ add(w, d) )
          => (disk' = disk /\ reported' = {"add"} /\ returned' = "") ]_vars

C26_Witness ==
    /\ pc = "idle"
    /\ reported = {"add"}
    /\ Len(disk) = 3
    /\ today = 2

\* C27: nothing guards the file between a session's load and its save: when
\* a second process has added or deleted cards in between, the session's save
\* writes its own deck over the file, so that afterwards a card the second
\* process added is absent and a card it deleted, if the session keeps it, is
\* back.
C27_LostUpdate ==
    [][ (go_end /\ ~abort /\ elsewhere # unshared) =>
          /\ disk' = _save(_cards')
          /\ \A c \in elsewhere.added :
               \A i \in DOMAIN disk' : disk'[i] # c
          /\ \A c \in elsewhere.deleted :
               (\E k \in DOMAIN _cards' : _cards'[k][1] = c[1])
                 => \E i \in DOMAIN disk' : disk'[i][1] = c[1] ]_vars

C27_Witness ==
    /\ pc = "idle" /\ returned = "end" /\ ~abort
    /\ \E c \in elsewhere.added :
         /\ c[1] = <<"z">>
         /\ \A i \in DOMAIN disk : disk[i][1] # <<"z">>
    /\ \E c \in elsewhere.deleted : \E i \in DOMAIN disk : disk[i][1] = c[1]

\* A user who answers: a key is pressed at every pause, and at the "Meaning
\* known?" prompt a response that judges the card or quits is given sooner or
\* later; the program itself runs on from the end of the loop.
SpecAnswered ==
    /\ SpecPass
    /\ WF_vars(\E a \in PauseTokens : go_pause(a))
    /\ WF_vars(\E a \in {t \in Tokens : yes(t) \/ no(t) \/ quits(t)} : go_respond(a))
    /\ WF_vars(go_end)

\* C28: with such a user a review session always ends; the cards that have
\* received an advancing response are as many as the cards presented before
\* the current one, the card at the prompt has received none (only the
\* re-prompting responses show a card again), and at the end of the loop they
\* are as many as the cards loaded.
C28_SessionTerminates ==
    /\ [](pc \in {"word", "resp"} =>
            /\ index_list[number] \notin DOMAIN answers
            /\ Cardinality(DOMAIN answers) = number - 1
            /\ number <= Len(loaded))
    /\ [](pc = "end" => Cardinality(DOMAIN answers) = Len(loaded))
    /\ (pc \in {"word", "resp", "end"} ~> pc = "idle")

C28_Witness ==
    /\ pc = "idle" /\ returned = "end"
    /\ toggled
    /\ Len(loaded) = 3
    /\ Cardinality(DOMAIN answers) = 3

\* word, definition and date of a card
identity(card) == SubSeq(card, 1, 3)

\* the positions whose card received a correct response that brought its
\* tally to maxtally or more
mastered ==
    {k \in DOMAIN answers :
        answers[k] = "correct" /\ _cards[k][5] >= _settings.maxtally}

\* C29: a pass that completes and saves writes exactly the loaded deck less
\* the cards whose correct response brought their tally to maxtally or more,
\* in the loaded order, each with its word, definition and date as loaded.
C29_SavedIsLoadedLessMastered ==
    [][ (go_end /\ ~abort /\ returned' = "end" /\ save_outcome(fs) = "ok") =>
          LET kept == unmarked(loaded, mastered)
          IN  /\ Len(stored') = Len(kept)
              /\ \A j \in DOMAIN kept : identity(stored'[j]) = identity(kept[j]) ]_vars

C29_Witness ==
    /\ pc = "idle" /\ returned = "end" /\ ~abort
    /\ Len(loaded) = 2 /\ Len(stored) = 1
    /\ unwanted = <<1>>
    /\ identity(stored[1]) = identity(loaded[2])
    /\ Len(missed) = 1

\* C30: add() changes only the card it inserts or replaces: the other cards
\* of the file keep their fields and their order; a card that replaces one of
\* the same word carries that card's viewed count and tally, a card of a new
\* word starts with viewed 0 and tally 0.
C30_AddChangesOneCard ==
    [][ \A w \in AddWords, d \in ReviewDefinitions :
          (add(w, d) /\ valid(w, d)) =>
            LET hits == {i \in DOMAIN stored :
                           normalized(stored[i][1]) = normalized(replace(w))}
                last == stored'[Len(stored')]
            IN  /\ stored' # <<>>
                /\ last[1] = replace(w) /\ last[2] = replace(d)
                /\ IF hits = {}
                   THEN /\ SubSeq(stored', 1, Len(stored') - 1) = stored
                        /\ last[4] = 0 /\ last[5] = 0
                   ELSE \E i \in hits :
                        /\ SubSeq(stored', 1, Len(stored') - 1) = RemoveAt(stored, i)
                        /\ last[4] = stored[i][4] /\ last[5] = stored[i][5]
      ]_vars

====
